---- MODULE Spec2Model ----
(***************************************************************************)
(* A model of workq.WorkQueue: an iterator over a FIFO buffer of pending   *)
(* work items that may be extended while it is being consumed, with        *)
(* optional de-duplication of the items by a key.                          *)
(***************************************************************************)
EXTENDS Integers, Sequences, FiniteSets, TLC

\* ------------------------------------------------------------------ bounds
\* Number of distinct work items; items 2k-1 and 2k carry the same key k.
MaxItem == 4
\* Total number of add() calls (seeds included) over one behaviour.
MaxOffered == 3
\* Longest sequence handed to the constructor or to extend().
MaxBatch == 2
\* Number of consumers that pull from the queue.
NumConsumers == 2
\* Number of nodes of the arbitrary graphs that are traversed.
MaxNodes == 2
\* Longest neighbour list of a node of such a graph.
MaxDeg == 2
\* Largest number of root nodes a traversal is seeded with.
MaxRoots == 1
\* Number of nodes of the tables the loop is run on in both unique modes.
MaxLoopNodes == 3

\* ------------------------------------------------------------------ values
\* A work item is an object with an identity and a ``key`` attribute, like
\* the Mock(key='a') objects of test_add_unique_withkey; two items are the
\* same value iff both fields agree.
Items == {[key |-> (i + 1) \div 2, id |-> i] : i \in 1..MaxItem}

\* The keys of the work items.
Keys == {item.key : item \in Items}

Consumers == 1..NumConsumers

\* The key argument of the constructor: no callable, or ``lambda x: x.key``.
None == "None"
AttrKey == "lambda x: x.key"
KeyFns == {None, AttrKey}

\* The exceptions a call can end with.
StopIteration == "StopIteration"
TypeError == "TypeError"
\* The identity of the one WorkQueue object.
Self == "wq"

RECURSIVE SeqsUpTo(_, _)
\* All sequences over S of length at most n.
SeqsUpTo(S, n) ==
    IF n = 0 THEN {<< >>}
    ELSE LET shorter == SeqsUpTo(S, n - 1)
         IN  shorter \cup {Append(s, x) : s \in {t \in shorter : Len(t) = n - 1}, x \in S}

\* ------------------------------------------------------------------ state
VARIABLES
    wq,        \* the WorkQueue object: _work, _seen, _count, _unique, _key
    handle,    \* per consumer: the iterator obtained from iter(wq), or None
    offered,   \* history: every item add() was called with, in call order
    produced,  \* history: every item __next__ returned, in return order
    got,       \* history: per consumer, the items its pulls returned
    result,    \* the last call: its name, caller, exception raised if any,
               \* and the item returned if any, as a sequence of 0 or 1
    roots,     \* the items argument the constructor was called with
    stopped,   \* history: some pull has raised StopIteration
    files,     \* traversal: the lookup table from a node to its includes
    fn,        \* traversal: the loop variable of ``for fn in wq``
    pc         \* traversal: position of the loop; "free" outside a traversal

vars == <<wq, handle, offered, produced, got, result, roots, stopped, files, fn, pc>>

\* The variables only a traversal loop uses.
loopVars == <<files, fn, pc>>

\* --------------------------------------------------------- the WorkQueue
\* Hashability of a derived key.  The item objects and their keys are
\* hashable; id 0 marks an unhashable item object (a list, a dict) and a
\* key attribute of 0 an unhashable key value.
HashableItem(item) == item.id # 0
HashableKey(k) == k # 0

\* key = self._key(item) if self._key else item
KeyOf(q, item) == IF q.key # None THEN item.key ELSE item

\* Whether hashing the derived key raises TypeError.
Unhashable(q, item) ==
    IF q.key # None THEN ~HashableKey(item.key) ELSE ~HashableItem(item)

\* __len__ as the class docstring words it: the items ever added.
len_count(q) == q.count

\* WorkQueue.__len__
len(q) == Len(q.work)

\* Truth value of the queue: Python falls back to __len__.
bool(q) == len(q) # 0

\* WorkQueue.__iter__: returns the object it was called on.
iter(self) == self

\* WorkQueue.count
count(q) == q.count

\* WorkQueue.worked
worked(q) == q.count - Len(q.work)

\* __next__ with pop() for popleft(): the newest item is taken.
next_popRight(q) ==
    IF q.work = << >>
    THEN [q |-> q, ret |-> None, stop |-> TRUE]
    ELSE [q |-> [q EXCEPT !.work = SubSeq(q.work, 1, Len(q.work) - 1)],
          ret |-> q.work[Len(q.work)], stop |-> FALSE]

\* __next__ that also discards the key of the item it hands out.
next_forget(q) ==
    IF q.work = << >>
    THEN [q |-> q, ret |-> None, stop |-> TRUE]
    ELSE [q |-> [q EXCEPT !.work = Tail(q.work),
                          !.seen = q.seen \ {KeyOf(q, Head(q.work))}],
          ret |-> Head(q.work), stop |-> FALSE]

\* __next__ of an iterator that stays exhausted once it has raised
\* StopIteration, as a generator would.
next_sticky(q) ==
    IF q.work = << >> \/ stopped
    THEN [q |-> q, ret |-> None, stop |-> TRUE]
    ELSE [q |-> [q EXCEPT !.work = Tail(q.work)], ret |-> Head(q.work), stop |-> FALSE]

\* __next__ of an iterator over a snapshot of the constructor's items.
next_snapshot(q) ==
    IF q.work = << >> \/ Len(produced) >= Len(roots)
    THEN [q |-> q, ret |-> None, stop |-> TRUE]
    ELSE [q |-> [q EXCEPT !.work = Tail(q.work)], ret |-> Head(q.work), stop |-> FALSE]

\* __next__ that returns self._work[0] and leaves it on the queue.
next_peek(q) ==
    IF q.work = << >>
    THEN [q |-> q, ret |-> None, stop |-> TRUE]
    ELSE [q |-> q, ret |-> Head(q.work), stop |-> FALSE]

\* __next__ that takes the item it hands out off the lifetime count.
next_uncount(q) ==
    IF q.work = << >>
    THEN [q |-> q, ret |-> None, stop |-> TRUE]
    ELSE [q |-> [q EXCEPT !.work = Tail(q.work), !.count = q.count - 1],
          ret |-> Head(q.work), stop |-> FALSE]

\* WorkQueue.__next__: the queue afterwards, the value returned and whether
\* StopIteration was raised instead.
next(q) ==
    IF q.work = << >>
    THEN [q |-> q, ret |-> None, stop |-> TRUE]
    ELSE [q |-> [q EXCEPT !.work = Tail(q.work)], ret |-> Head(q.work), stop |-> FALSE]

\* add that counts before it checks for a duplicate.
add_countAlways(q, item) ==
    IF q.unique
    THEN IF Unhashable(q, item)
         THEN [q |-> q, raised |-> TRUE]
         ELSE IF KeyOf(q, item) \in q.seen
              THEN [q |-> [q EXCEPT !.count = q.count + 1], raised |-> FALSE]
              ELSE [q |-> [q EXCEPT !.seen = q.seen \cup {KeyOf(q, item)},
                                    !.work = Append(q.work, item),
                                    !.count = q.count + 1],
                    raised |-> FALSE]
    ELSE [q |-> [q EXCEPT !.work = Append(q.work, item),
                          !.count = q.count + 1],
          raised |-> FALSE]

\* add without the early return for a key that was seen.
add_noReturn(q, item) ==
    IF q.unique
    THEN IF Unhashable(q, item)
         THEN [q |-> q, raised |-> TRUE]
         ELSE [q |-> [q EXCEPT !.seen = q.seen \cup {KeyOf(q, item)},
                               !.work = Append(q.work, item),
                               !.count = q.count + 1],
               raised |-> FALSE]
    ELSE [q |-> [q EXCEPT !.work = Append(q.work, item),
                          !.count = q.count + 1],
          raised |-> FALSE]

\* add that derives the key from the wrong attribute of the item.
add_keyById(q, item) ==
    LET k == IF q.key # None THEN item.id ELSE item
    IN  IF q.unique
        THEN IF Unhashable(q, item)
             THEN [q |-> q, raised |-> TRUE]
             ELSE IF k \in q.seen
                  THEN [q |-> q, raised |-> FALSE]
                  ELSE [q |-> [q EXCEPT !.seen = q.seen \cup {k},
                                        !.work = Append(q.work, item),
                                        !.count = q.count + 1],
                        raised |-> FALSE]
        ELSE [q |-> [q EXCEPT !.work = Append(q.work, item),
                              !.count = q.count + 1],
              raised |-> FALSE]

\* add that uniquifies whatever the unique flag says.
add_alwaysUnique(q, item) ==
    IF Unhashable(q, item)
    THEN [q |-> q, raised |-> TRUE]
    ELSE IF KeyOf(q, item) \in q.seen
         THEN [q |-> q, raised |-> FALSE]
         ELSE [q |-> [q EXCEPT !.seen = q.seen \cup {KeyOf(q, item)},
                               !.work = Append(q.work, item),
                               !.count = q.count + 1],
               raised |-> FALSE]

\* add with appendleft() for append(): the item goes to the head.
add_appendleft(q, item) ==
    IF q.unique
    THEN IF Unhashable(q, item)
         THEN [q |-> q, raised |-> TRUE]
         ELSE IF KeyOf(q, item) \in q.seen
              THEN [q |-> q, raised |-> FALSE]
              ELSE [q |-> [q EXCEPT !.seen = q.seen \cup {KeyOf(q, item)},
                                    !.work = <<item>> \o q.work,
                                    !.count = q.count + 1],
                    raised |-> FALSE]
    ELSE [q |-> [q EXCEPT !.work = <<item>> \o q.work,
                          !.count = q.count + 1],
          raised |-> FALSE]

\* add that appends and counts before it hashes the key.
add_hashLast(q, item) ==
    IF q.unique
    THEN IF Unhashable(q, item)
         THEN [q |-> [q EXCEPT !.work = Append(q.work, item),
                               !.count = q.count + 1],
               raised |-> TRUE]
         ELSE IF KeyOf(q, item) \in q.seen
              THEN [q |-> q, raised |-> FALSE]
              ELSE [q |-> [q EXCEPT !.seen = q.seen \cup {KeyOf(q, item)},
                                    !.work = Append(q.work, item),
                                    !.count = q.count + 1],
                    raised |-> FALSE]
    ELSE [q |-> [q EXCEPT !.work = Append(q.work, item),
                          !.count = q.count + 1],
          raised |-> FALSE]

\* add that looks for the key among the pending items only.
add_seenPending(q, item) ==
    IF q.unique
    THEN IF Unhashable(q, item)
         THEN [q |-> q, raised |-> TRUE]
         ELSE IF \E i \in 1..Len(q.work) : KeyOf(q, q.work[i]) = KeyOf(q, item)
              THEN [q |-> q, raised |-> FALSE]
              ELSE [q |-> [q EXCEPT !.seen = q.seen \cup {KeyOf(q, item)},
                                    !.work = Append(q.work, item),
                                    !.count = q.count + 1],
                    raised |-> FALSE]
    ELSE [q |-> [q EXCEPT !.work = Append(q.work, item),
                          !.count = q.count + 1],
          raised |-> FALSE]

\* add that admits an unseen key without recording it in seen.
add_noSeen(q, item) ==
    IF q.unique
    THEN IF Unhashable(q, item)
         THEN [q |-> q, raised |-> TRUE]
         ELSE IF KeyOf(q, item) \in q.seen
              THEN [q |-> q, raised |-> FALSE]
              ELSE [q |-> [q EXCEPT !.work = Append(q.work, item),
                                    !.count = q.count + 1],
                    raised |-> FALSE]
    ELSE [q |-> [q EXCEPT !.work = Append(q.work, item),
                          !.count = q.count + 1],
          raised |-> FALSE]

\* add that moves the pending item of a seen key to the tail.
add_requeue(q, item) ==
    IF q.unique
    THEN IF Unhashable(q, item)
         THEN [q |-> q, raised |-> TRUE]
         ELSE IF KeyOf(q, item) \in q.seen
              THEN [q |-> [q EXCEPT !.work =
                              SelectSeq(q.work, LAMBDA x : KeyOf(q, x) # KeyOf(q, item))
                                  \o SelectSeq(q.work, LAMBDA x : KeyOf(q, x) = KeyOf(q, item))],
                    raised |-> FALSE]
              ELSE [q |-> [q EXCEPT !.seen = q.seen \cup {KeyOf(q, item)},
                                    !.work = Append(q.work, item),
                                    !.count = q.count + 1],
                    raised |-> FALSE]
    ELSE [q |-> [q EXCEPT !.work = Append(q.work, item),
                          !.count = q.count + 1],
          raised |-> FALSE]

\* WorkQueue.add: the queue afterwards and whether TypeError was raised.
add(q, item) ==
    IF q.unique
    THEN IF Unhashable(q, item)
         THEN [q |-> q, raised |-> TRUE]
         ELSE IF KeyOf(q, item) \in q.seen
              THEN [q |-> q, raised |-> FALSE]
              ELSE [q |-> [q EXCEPT !.seen = q.seen \cup {KeyOf(q, item)},
                                    !.work = Append(q.work, item),
                                    !.count = q.count + 1],
                    raised |-> FALSE]
    ELSE [q |-> [q EXCEPT !.work = Append(q.work, item),
                          !.count = q.count + 1],
          raised |-> FALSE]

RECURSIVE extend_continue(_, _)
\* extend that carries on with the rest of the batch after an add() raised
\* and raises when the batch is through.
extend_continue(q, items) ==
    IF items = << >>
    THEN [q |-> q, raised |-> FALSE, calls |-> 0]
    ELSE LET r == add(q, Head(items))
             rest == extend_continue(r.q, Tail(items))
         IN  [q |-> rest.q, raised |-> r.raised \/ rest.raised,
              calls |-> rest.calls + 1]

\* extend that filters the batch against the keys seen when it was called
\* and then appends what is left in one go.
extend_snapshot(q, items) ==
    LET fresh == SelectSeq(items, LAMBDA x : ~q.unique \/ KeyOf(q, x) \notin q.seen)
    IN  [q |-> [q EXCEPT !.work = q.work \o fresh,
                         !.seen = IF q.unique
                                  THEN q.seen \cup {KeyOf(q, fresh[i]) : i \in 1..Len(fresh)}
                                  ELSE q.seen,
                         !.count = q.count + Len(fresh)],
         raised |-> FALSE, calls |-> Len(items)]

RECURSIVE extend(_, _)
\* WorkQueue.extend: add() in a loop; an exception ends the loop.  ``calls``
\* is the number of add() calls that were made.
extend(q, items) ==
    IF items = << >>
    THEN [q |-> q, raised |-> FALSE, calls |-> 0]
    ELSE LET r == add(q, Head(items))
         IN  IF r.raised
             THEN [q |-> r.q, raised |-> TRUE, calls |-> 1]
             ELSE LET rest == extend(r.q, Tail(items))
                  IN  [q |-> rest.q, raised |-> rest.raised, calls |-> rest.calls + 1]

\* __init__ that stores the initial items itself instead of adding them.
WorkQueue_direct(items, unique, key) ==
    [q |-> [work |-> items, seen |-> {}, count |-> Len(items),
            unique |-> unique, key |-> key],
     raised |-> FALSE, calls |-> Len(items)]

\* WorkQueue.__init__
WorkQueue(items, unique, key) ==
    extend([work |-> << >>, seen |-> {}, count |-> 0,
            unique |-> unique, key |-> key], items)

Seeds == SeqsUpTo(Items, MaxBatch)

\* The state after ``wq = WorkQueue(seeds, unique, key)`` returned, for
\* seeds taken from seedLists.
InitFrom(seedLists) ==
    \E seeds \in seedLists, unique \in BOOLEAN, key \in KeyFns :
        LET r == WorkQueue(seeds, unique, key)
        IN  /\ ~r.raised
            /\ wq = r.q
            /\ handle = [c \in Consumers |-> None]
            /\ offered = seeds
            /\ produced = << >>
            /\ got = [c \in Consumers |-> << >>]
            /\ result = [op |-> "__init__", by |-> 0, ret |-> << >>, exc |-> None]
            /\ roots = seeds
            /\ stopped = FALSE
            /\ files = << >>
            /\ fn = None
            /\ pc = "free"

Init == InitFrom(Seeds)

\* wq.add(item), by the code that drives the queue.
Add(item) ==
    /\ pc = "free"
    /\ Len(offered) < MaxOffered
    /\ LET r == add(wq, item)
       IN  /\ wq' = r.q
           /\ result' = [op |-> "add", by |-> 0, ret |-> << >>,
                         exc |-> IF r.raised THEN TypeError ELSE None]
    /\ offered' = Append(offered, item)
    /\ UNCHANGED <<handle, produced, got, roots, stopped, loopVars>>

\* The effect of wq.extend(items) on the queue and on the histories.
ExtendCall(items) ==
    /\ LET r == extend(wq, items)
       IN  /\ wq' = r.q
           /\ result' = [op |-> "extend", by |-> 0, ret |-> << >>,
                         exc |-> IF r.raised THEN TypeError ELSE None]
           /\ offered' = offered \o SubSeq(items, 1, r.calls)
    /\ UNCHANGED <<handle, produced, got, roots, stopped>>

\* wq.extend(items), by the code that drives the queue.
Extend(items) ==
    /\ pc = "free"
    /\ Len(offered) + Len(items) <= MaxOffered
    /\ ExtendCall(items)
    /\ UNCHANGED loopVars

\* Consumer c evaluates iter(wq), as a for loop does when it starts.
Iter(c) ==
    /\ pc = "free"
    /\ handle[c] = None
    /\ handle' = [handle EXCEPT ![c] = iter(Self)]
    /\ UNCHANGED <<wq, offered, produced, got, result, roots, stopped, loopVars>>

\* The effect of next(handle[c]) on the queue and on the histories.
NextCall(c) ==
    /\ handle[c] = Self
    /\ LET r == next(wq)
       IN  /\ wq' = r.q
           /\ result' = [op |-> "__next__", by |-> c,
                         ret |-> IF r.stop THEN << >> ELSE <<r.ret>>,
                         exc |-> IF r.stop THEN StopIteration ELSE None]
           /\ produced' = IF r.stop THEN produced ELSE Append(produced, r.ret)
           /\ got' = IF r.stop THEN got ELSE [got EXCEPT ![c] = Append(@, r.ret)]
           /\ stopped' = (stopped \/ r.stop)
    /\ UNCHANGED <<handle, offered, roots>>

\* Consumer c pulls once from its iterator.
Pull(c) ==
    /\ pc = "free"
    /\ NextCall(c)
    /\ UNCHANGED loopVars

\* The queue driven by one thread of control, which adds, extends and,
\* as consumer 1, iterates, in any order.
Next ==
    \/ \E item \in Items : Add(item)
    \/ \E items \in SeqsUpTo(Items, MaxBatch) : Extend(items)
    \/ Iter(1)
    \/ Pull(1)

Spec == Init /\ [][Next]_vars

\* The state after ``wq = WorkQueue([], unique, key)`` returned, the queue
\* the unit tests start from.
InitEmpty == InitFrom({<< >>})

\* The queue that starts empty, with a consumer that keeps pulling: once it
\* holds its iterator, a pull that would change anything is eventually made.
SpecLive == InitEmpty /\ [][Next]_vars /\ WF_vars(Pull(1))

\* The queue shared by several consumers; every call is atomic, as under
\* the mutual exclusion the callers have to supply.
\* The items offered to the shared queue: two objects with the same key,
\* which are duplicates of each other under a key function only.
SharedItems == {item \in Items : item.key = 1}

InitShared == InitFrom(SeqsUpTo(SharedItems, MaxBatch))

NextShared ==
    \/ \E item \in SharedItems : Add(item)
    \/ \E items \in SeqsUpTo(SharedItems, MaxBatch) : Extend(items)
    \/ \E c \in Consumers : Iter(c)
    \/ \E c \in Consumers : Pull(c)

SpecShared == InitShared /\ [][NextShared]_vars

\* ------------------------------------------------------ unhashable keys
\* An object that cannot be hashed (a list, a dict) but has a usable key.
UnhashableItem == [key |-> 1, id |-> 0]

\* A hashable object for which the key function returns an unhashable value.
UnhashableKeyItem == [key |-> 0, id |-> MaxItem + 1]

\* The items offered to a queue that is not protected from caller errors:
\* two hashable objects with the same key and the two offending ones.
ErrItems == SharedItems \cup {UnhashableItem, UnhashableKeyItem}

\* The state after ``wq = WorkQueue(seeds, unique, key)`` has returned or has
\* raised TypeError; when it raised, no queue is bound to ``wq`` and what is
\* recorded is the object as the failing constructor left it.
ErrBatches == SeqsUpTo(ErrItems, MaxBatch)

InitErr ==
    \E seeds \in ErrBatches, unique \in BOOLEAN, key \in KeyFns :
        LET r == WorkQueue(seeds, unique, key)
        IN  /\ wq = r.q
            /\ handle = [c \in Consumers |-> None]
            /\ offered = SubSeq(seeds, 1, r.calls)
            /\ produced = << >>
            /\ got = [c \in Consumers |-> << >>]
            /\ result = [op |-> "__init__", by |-> 0, ret |-> << >>,
                         exc |-> IF r.raised THEN TypeError ELSE None]
            /\ roots = seeds
            /\ stopped = FALSE
            /\ files = << >>
            /\ fn = None
            /\ pc = IF r.raised THEN "raised" ELSE "free"

NextErr ==
    \/ \E item \in ErrItems : Add(item)
    \/ \E items \in ErrBatches : Extend(items)
    \/ Iter(1)
    \/ Pull(1)

SpecErr == InitErr /\ [][NextErr]_vars

\* ------------------------------------------------------------ traversal
\* The loop of WorkQueueFunctionTest.test_basic over a table of files:
\*     wq = workq.WorkQueue(roots)
\*     for fn in wq:
\*         worked.append(fn)
\*         wq.extend(files[fn].includes)
\* ``produced`` is the list the test calls ``worked``.
Node(n) == [key |-> n, id |-> 1]

\* The table of test_basic: f1..f5 are Node(1)..Node(5).
TestFiles ==
    (Node(1) :> <<Node(1), Node(2), Node(3)>>) @@
    (Node(2) :> <<Node(1), Node(3), Node(4)>>) @@
    (Node(3) :> << >>) @@
    (Node(4) :> <<Node(5)>>) @@
    (Node(5) :> << >>)

GraphNodes == {Node(n) : n \in 1..MaxNodes}

\* Every table over GraphNodes with include lists of at most MaxDeg
\* entries; a list may name its own node and may repeat a node.
Graphs == [GraphNodes -> SeqsUpTo(GraphNodes, MaxDeg)]

\* The seeds of a traversal: f1, as in test_basic, and up to MaxRoots - 1
\* further nodes of the table.
RootLists(table) == {<<Node(1)>> \o more : more \in SeqsUpTo(DOMAIN table, MaxRoots - 1)}

\* The state after ``wq = workq.WorkQueue(roots)``, with default settings.
InitGraph ==
    \E table \in Graphs \cup {TestFiles} :
        \E seeds \in RootLists(table) :
            LET r == WorkQueue(seeds, TRUE, None)
            IN  /\ wq = r.q
                /\ handle = [c \in Consumers |-> None]
                /\ offered = seeds
                /\ produced = << >>
                /\ got = [c \in Consumers |-> << >>]
                /\ result = [op |-> "__init__", by |-> 0, ret |-> << >>, exc |-> None]
                /\ roots = seeds
                /\ stopped = FALSE
                /\ files = table
                /\ fn = None
                /\ pc = "for"

\* ``for fn in wq``: the loop obtains its iterator.
LoopIter ==
    /\ pc = "for"
    /\ handle' = [handle EXCEPT ![1] = iter(Self)]
    /\ pc' = "next"
    /\ UNCHANGED <<wq, offered, produced, got, result, roots, stopped, files, fn>>

\* The loop pulls: it binds fn and appends it to ``worked``, or it ends.
LoopNext ==
    /\ pc = "next"
    /\ NextCall(1)
    /\ IF next(wq).stop
       THEN pc' = "done" /\ fn' = fn
       ELSE pc' = "body" /\ fn' = next(wq).ret
    /\ UNCHANGED files

\* The loop body: wq.extend(fobj.includes).
LoopBody ==
    /\ pc = "body"
    /\ ExtendCall(files[fn])
    /\ pc' = "next"
    /\ UNCHANGED <<files, fn>>

NextGraph ==
    \/ LoopIter
    \/ LoopNext
    \/ LoopBody

SpecGraph == InitGraph /\ [][NextGraph]_vars

\* ------------------------------------------ the loop in both unique modes
LoopNodes == {Node(n) : n \in 1..MaxLoopNodes}

\* Every table over LoopNodes in which a node includes one node (itself,
\* maybe) or none.
LoopGraphs == [LoopNodes -> {<< >>} \cup {<<n>> : n \in LoopNodes}]

\* The state after ``wq = workq.WorkQueue([f1], unique)``.
InitLoop ==
    \E table \in LoopGraphs \cup {TestFiles}, unique \in BOOLEAN :
        LET r == WorkQueue(<<Node(1)>>, unique, None)
        IN  /\ wq = r.q
            /\ handle = [c \in Consumers |-> None]
            /\ offered = <<Node(1)>>
            /\ produced = << >>
            /\ got = [c \in Consumers |-> << >>]
            /\ result = [op |-> "__init__", by |-> 0, ret |-> << >>, exc |-> None]
            /\ roots = <<Node(1)>>
            /\ stopped = FALSE
            /\ files = table
            /\ fn = None
            /\ pc = "for"

\* The loop pulls, as long as it has not yet been handed more items than
\* one more than the table has nodes.
LoopPull ==
    /\ Len(produced) <= Cardinality(DOMAIN files)
    /\ LoopNext

NextLoop ==
    \/ LoopIter
    \/ LoopPull
    \/ LoopBody

\* The loop runs on its own: a step it can take is taken.
SpecLoop == InitLoop /\ [][NextLoop]_vars /\ WF_vars(NextLoop)

\* ------------------------------------------------- reference definitions
\* The pending buffer, the set of seen keys and the lifetime count.
pending == wq.work
seen == wq.seen

\* The key the queue was configured to derive from an item.
RefKey(item) == IF wq.key = None THEN item ELSE item.key

\* Number of positions of seq that hold an item satisfying P.
Occurrences(seq, P(_)) == Cardinality({i \in 1..Len(seq) : P(seq[i])})

\* No two positions of seq hold items with the same key.
DistinctKeys(seq) ==
    \A i, j \in 1..Len(seq) : RefKey(seq[i]) = RefKey(seq[j]) => i = j

RECURSIVE FirstOccurrences(_, _)
\* The first n offered items, without those whose key occurred earlier.
FirstOccurrences(seq, n) ==
    IF n = 0 THEN << >>
    ELSE LET p == FirstOccurrences(seq, n - 1)
         IN  IF \A j \in 1..(n - 1) : RefKey(seq[j]) # RefKey(seq[n])
             THEN Append(p, seq[n])
             ELSE p

\* The admitted items in admission order: what the documentation calls the
\* items that passed the de-duplication check.
Admitted ==
    IF wq.unique THEN FirstOccurrences(offered, Len(offered)) ELSE offered

\* Everything that went through the queue: returned items, then pending.
Through == produced \o pending

\* The last completed call was an add() or extend() made after a pull.
AddedAfterPull ==
    /\ result.op \in {"add", "extend"}
    /\ produced # << >>

\* ------------------------------------------------------------------ claims
\* C1: the number of items next has returned plus len(queue) equals count,
\* so worked equals the number of items produced and is never negative.
C1_Conservation ==
    /\ Len(produced) + len(wq) = count(wq)
    /\ worked(wq) = Len(produced)
    /\ worked(wq) >= 0

\* C1 witness: an item was produced, a pull hit the empty queue, and items
\* were offered afterwards, one admitted and one a rejected duplicate.
C1_Witness ==
    /\ stopped
    /\ Len(produced) >= 1
    /\ len(wq) >= 1
    /\ Len(offered) > count(wq)

\* C2: the items returned by next are a prefix of the admitted items in
\* admission order and pending is exactly the remaining suffix.
C2_Fifo ==
    /\ Len(produced) <= Len(Admitted)
    /\ produced = SubSeq(Admitted, 1, Len(produced))
    /\ pending = SubSeq(Admitted, Len(produced) + 1, Len(Admitted))

\* C2 witness: a seed was produced, then items were admitted between two
\* pulls and one of those has been produced as well while one is pending.
C2_Witness ==
    /\ Len(produced) >= 2
    /\ len(wq) >= 1
    /\ AddedAfterPull
    /\ produced[1] # produced[2]

\* C3 as stated: with unique set, pending keys are pairwise distinct and a
\* value added N >= 1 times goes through the queue exactly once, counting 1.
C3_SameValueOnce ==
    wq.unique =>
        /\ DistinctKeys(pending)
        /\ \A v \in Items :
               Occurrences(offered, LAMBDA x : x = v) >= 1
                   => Occurrences(Through, LAMBDA x : x = v) = 1
        /\ count(wq) = Cardinality({offered[i] : i \in 1..Len(offered)})

\* C3 amended: with unique set, pending keys are pairwise distinct and
\* adding items of one key N >= 1 times (the same value, when there is no
\* key function) admits exactly one item of that key, counting 1.
C3_SameKeyOnce ==
    wq.unique =>
        /\ DistinctKeys(pending)
        /\ \A v \in Items :
               Occurrences(offered, LAMBDA x : x = v) >= 1
                   => /\ Occurrences(Through, LAMBDA x : RefKey(x) = RefKey(v)) = 1
                      /\ wq.key = None => Occurrences(Through, LAMBDA x : x = v) = 1
        /\ count(wq) = Cardinality({RefKey(offered[i]) : i \in 1..Len(offered)})

\* C3 witness: one value was added twice, the second time by the last
\* call, and is pending once, next to another value.
C3_Witness ==
    /\ wq.unique
    /\ result.op = "add"
    /\ \E v \in Items :
           /\ Occurrences(offered, LAMBDA x : x = v) >= 2
           /\ offered[Len(offered)] = v
           /\ Occurrences(pending, LAMBDA x : x = v) = 1
           /\ count(wq) = 2

\* C4: with unique set a key stays in seen after its item was produced, so
\* no key is ever returned by next more than once.
C4_KeyNeverReturnedTwice ==
    wq.unique =>
        /\ DistinctKeys(produced)
        /\ \A i \in 1..Len(produced) : RefKey(produced[i]) \in seen

\* C4 witness: an item was produced, its key was offered again by the last
\* call, and the queue is empty: the late duplicate was rejected.
C4_Witness ==
    /\ wq.unique
    /\ result.op = "add"
    /\ produced # << >>
    /\ pending = << >>
    /\ \E i \in 1..Len(produced) :
           RefKey(produced[i]) = RefKey(offered[Len(offered)])

\* C5: with unique set and a key function, of the items that map to one
\* key the first offered is the one that goes through the queue, the later
\* ones are discarded, and seen holds the keys.
C5_FirstOfKeyRetained ==
    (wq.unique /\ wq.key # None) =>
        /\ \A i \in 1..Len(Through) :
               \E j \in 1..Len(offered) :
                   /\ offered[j] = Through[i]
                   /\ \A h \in 1..(j - 1) : offered[h].key # offered[j].key
        /\ Len(Through) = Cardinality({offered[i].key : i \in 1..Len(offered)})
        /\ seen \subseteq Keys
        /\ seen = {offered[i].key : i \in 1..Len(offered)}

\* C5 witness: two distinct items of one key were offered, the second by
\* the last call; the first is pending and the second is nowhere.
C5_Witness ==
    /\ wq.unique
    /\ wq.key # None
    /\ result.op = "add"
    /\ Len(offered) = 2
    /\ offered[1] # offered[2]
    /\ offered[1].key = offered[2].key
    /\ Occurrences(pending, LAMBDA x : x = offered[1]) = 1
    /\ Occurrences(Through, LAMBDA x : x = offered[2]) = 0

\* C6: with unique unset every add is admitted: count is the number of
\* items passed in, produced plus pending is that sequence in call order,
\* and seen stays empty.
C6_NonUniqueKeepsAll ==
    ~wq.unique =>
        /\ count(wq) = Len(offered)
        /\ Through = offered
        /\ seen = {}

\* C6 witness: one value was passed three times and all three were kept,
\* one of them already produced.
C6_Witness ==
    /\ ~wq.unique
    /\ Len(offered) >= 3
    /\ offered[1] = offered[2]
    /\ offered[2] = offered[3]
    /\ produced # << >>
    /\ count(wq) >= 3

\* The set of entries of a sequence.
Range(seq) == {seq[i] : i \in 1..Len(seq)}

RECURSIVE Closure(_, _)
\* The least set of nodes that contains S and is closed under the table.
Closure(table, S) ==
    LET T == S \cup UNION {Range(table[n]) : n \in S}
    IN  IF T = S THEN S ELSE Closure(table, T)

\* The nodes reachable from the roots of the traversal.
Reachable == Closure(files, Range(roots))

RECURSIVE Discover(_, _)
\* order, followed by the nodes of list that are new, in list order.
Discover(order, list) ==
    IF list = << >> THEN order
    ELSE Discover(IF Head(list) \in Range(order) THEN order
                  ELSE Append(order, Head(list)), Tail(list))

RECURSIVE Bfs(_, _, _)
\* Breadth-first discovery order: visit the discovered nodes in the order
\* of their discovery; a visit discovers the unknown neighbours of a node.
Bfs(table, order, i) ==
    IF i > Len(order) THEN order
    ELSE Bfs(table, Discover(order, table[order[i]]), i + 1)

BfsOrder == Bfs(files, Discover(<< >>, roots), 1)

\* C7: the loop that extends the queue with the neighbours of each node it
\* produces ends having produced exactly the nodes reachable from the
\* seeds, each once, in breadth-first discovery order; on the table of
\* test_basic seeded with f1 that order is f1, f2, f3, f4, f5.
C7_Traversal ==
    /\ \A i, j \in 1..Len(produced) : produced[i] = produced[j] => i = j
    /\ Range(produced) \subseteq Reachable
    /\ pc = "done" =>
           /\ Range(produced) = Reachable
           /\ produced = BfsOrder
           /\ (DOMAIN files = DOMAIN TestFiles /\ files = TestFiles
                   /\ roots = <<Node(1)>>)
                  => produced = <<Node(1), Node(2), Node(3), Node(4), Node(5)>>

\* C7 witness: the traversal of the table of test_basic from f1 has ended,
\* with all five files worked.
C7_Witness ==
    /\ pc = "done"
    /\ DOMAIN files = DOMAIN TestFiles
    /\ roots = <<Node(1)>>
    /\ Len(produced) = 5
    /\ stopped

\* C8, the steps: a pull on an empty pending buffer raises StopIteration
\* at once and changes nothing; after such a signal an add that admits an
\* item leaves the queue true, with that item at the tail of pending; and
\* an item keeps its position among the items that went through the queue.
C8_Steps ==
    /\ \A c \in Consumers :
           (NextCall(c) /\ pending = << >>)
               => (result'.exc = StopIteration /\ wq' = wq)
    /\ \A item \in Items :
           (Add(item) /\ stopped /\ (wq.unique => RefKey(item) \notin seen))
               => /\ bool(wq')
                  /\ wq'.work[Len(wq'.work)] = item
    /\ Len(produced' \o wq'.work) >= Len(Through)
    /\ \A n \in 1..Len(Through) : (produced' \o wq'.work)[n] = Through[n]

\* C8: exhaustion is transient: the steps above, and the n-th item that
\* went through the queue, pending after an end-of-sequence signal, is
\* returned as the n-th result when the consumer keeps pulling.
C8_ExhaustionTransient ==
    /\ [][C8_Steps]_vars
    /\ \A n \in 1..MaxOffered :
           (stopped /\ handle[1] = Self /\ Len(Through) >= n)
               ~> (Len(produced) >= n)

\* C8 witness: a pull signalled the end, an item was added afterwards and
\* a later pull returned it.
C8_Witness ==
    /\ stopped
    /\ result.op = "__next__"
    /\ result.exc = None
    /\ Len(produced) = 1
    /\ Len(offered) = 1
    /\ roots = << >>

\* C9: every pull reads the live pending buffer: it signals the end iff
\* pending is empty at that moment, in which case every item admitted so
\* far has been returned; otherwise it returns the oldest admitted item not
\* yet returned, whenever that item was admitted.
C9_LiveBuffer ==
    [][\A c \in Consumers :
          NextCall(c) =>
              /\ (result'.exc = StopIteration) <=> (pending = << >>)
              /\ result'.exc = StopIteration => Len(produced) = Len(Admitted)
              /\ result'.exc # StopIteration =>
                     result'.ret = <<Admitted[Len(produced) + 1]>>]_vars

\* C9 witness: before any end-of-sequence signal a pull returned an item
\* that was admitted after the iteration had begun.
C9_Witness ==
    /\ ~stopped
    /\ result.op = "__next__"
    /\ result.exc = None
    /\ roots # << >>
    /\ Len(produced) > Len(roots)
    /\ result.ret = <<produced[Len(produced)]>>

RECURSIVE GotTotal(_)
\* Number of pulls of consumers 1..n that returned an item.
GotTotal(n) ==
    IF n = 0 THEN 0 ELSE GotTotal(n - 1) + Len(got[n])

RECURSIVE GotOf(_, _)
\* Number of pulls of consumers 1..n that returned the item v.
GotOf(n, v) ==
    IF n = 0 THEN 0
    ELSE GotOf(n - 1, v) + Occurrences(got[n], LAMBDA x : x = v)

\* C10: every iterator is the queue itself, and with several consumers
\* pulling in any interleaving every admitted item is returned to at most
\* one pull (to exactly one once it has left pending); conservation and
\* de-duplication still hold.
C10_SharedCursor ==
    /\ \A c \in Consumers : handle[c] \in {None, Self}
    /\ GotTotal(NumConsumers) = Len(produced)
    /\ \A v \in Items :
           /\ GotOf(NumConsumers, v) = Occurrences(produced, LAMBDA x : x = v)
           /\ GotOf(NumConsumers, v) + Occurrences(pending, LAMBDA x : x = v)
                  = Occurrences(Admitted, LAMBDA x : x = v)
    /\ Len(produced) + len(wq) = count(wq)
    /\ wq.unique => DistinctKeys(Through)

\* C10 witness: two consumers hold iterators, both were handed items and
\* an item is still pending.
C10_Witness ==
    /\ \A c \in Consumers : handle[c] = Self
    /\ \E c, d \in Consumers :
           /\ c # d
           /\ got[c] # << >>
           /\ got[d] # << >>
    /\ Len(produced) >= 2
    /\ pending # << >>


\* ------------------------------------------------------ claims C11 - C20
\* The items this step passed to add() are the first items of the batch.
OfferedFrom(items) ==
    /\ Len(offered') - Len(offered) \in 0..Len(items)
    /\ \A i \in 1..(Len(offered') - Len(offered)) : offered'[Len(offered) + i] = items[i]

\* Whether the key the queue derives from an item cannot be hashed.
RefUnhashable(item) ==
    IF wq.key = None THEN item.id = 0 ELSE item.key = 0

\* C11, the steps: with unique set an add of an item whose derived key is
\* unhashable ends with TypeError and leaves the queue as it was; any
\* other add ends without an error; an extend ends with TypeError iff it
\* came upon such an item.
C11_Steps ==
    /\ \A item \in ErrItems :
           (result'.op = "add" /\ Add(item)) =>
               /\ (wq.unique /\ RefUnhashable(item))
                      => (result'.exc = TypeError /\ wq' = wq)
               /\ ~(wq.unique /\ RefUnhashable(item)) => result'.exc = None
    /\ \A items \in ErrBatches :
           (result'.op = "extend" /\ OfferedFrom(items) /\ Extend(items)) =>
               ((result'.exc = TypeError) <=>
                   (wq.unique /\ \E i \in 1..Len(items) : RefUnhashable(items[i])))

\* C11: with unique set an add whose derived key is unhashable fails with
\* an error that reaches the caller of add, extend or the constructor and
\* leaves pending, seen and count as they were; with unique unset no such
\* error occurs.
C11_UnhashableKeyRaises ==
    /\ [][C11_Steps]_vars
    /\ [](result.exc = TypeError =>
             /\ wq.unique
             /\ offered # << >>
             /\ RefUnhashable(offered[Len(offered)]))
    /\ [](\A i \in 1..Len(pending) : wq.unique => ~RefUnhashable(pending[i]))
    /\ [](result.op = "__init__" =>
             ((result.exc = TypeError) <=>
                 (wq.unique /\ \E i \in 1..Len(roots) : RefUnhashable(roots[i]))))

\* C11 witness: after items were admitted, the last add raised TypeError
\* on a key the key function returned, and the queue holds what it held.
C11_Witness ==
    /\ wq.unique
    /\ wq.key # None
    /\ result.op = "add"
    /\ result.exc = TypeError
    /\ offered[Len(offered)] = UnhashableKeyItem
    /\ Len(pending) = 1
    /\ count(wq) = 1
    /\ Len(offered) = 3


\* C12: as the class docstring has it, the length of the queue is the
\* total number of items that have been added to it: len(queue) = count.
C12_LenIsCount == len(wq) = count(wq)

\* C13: len(queue) is the number of pending items, and the queue is true
\* iff that number is positive iff the next pull would return an item.
C13_LenAndTruth ==
    /\ len(wq) = Len(pending)
    /\ bool(wq) <=> Len(pending) > 0
    /\ bool(wq) <=> ~next(wq).stop
    /\ bool(wq) => next(wq).ret = pending[1]
    /\ len(wq) = Len(Admitted) - Len(produced)

\* C13 witness: every admitted item was pulled, so the queue that was true
\* is false again, with a length of 0 and a count of 2.
C13_Witness ==
    /\ Len(produced) = 2
    /\ ~bool(wq)
    /\ len(wq) = 0
    /\ count(wq) = 2
    /\ ~stopped

\* C14: with unique set, an add of an item whose key is in seen raises
\* nothing and leaves pending, seen, count and everything else but the
\* record of the call as they were.
C14_RejectedAddNoOp ==
    [][\A item \in Items :
          (result'.op = "add" /\ Add(item) /\ wq.unique /\ RefKey(item) \in seen)
              => /\ result'.exc = None
                 /\ wq'.work = pending
                 /\ wq'.seen = seen
                 /\ wq'.count = count(wq)
                 /\ wq' = wq
                 /\ produced' = produced]_vars

\* C14 witness: the key of the seed was offered again twice, the last time
\* by an add, and the queue still holds just the seed.
C14_Witness ==
    /\ wq.unique
    /\ result.op = "add"
    /\ result.exc = None
    /\ Len(offered) = 3
    /\ RefKey(offered[2]) = RefKey(offered[1])
    /\ RefKey(offered[3]) = RefKey(offered[1])
    /\ roots = <<offered[1]>>
    /\ pending = <<offered[1]>>
    /\ count(wq) = 1

\* Whether seq is a leading part of other.
IsPrefix(seq, other) ==
    /\ Len(seq) <= Len(other)
    /\ \A i \in 1..Len(seq) : other[i] = seq[i]

\* C15: a pull that returns an item removes exactly the head of pending
\* and leaves seen and count alone; a pull that signals the end changes
\* nothing; every other step keeps the pending items in place, so only a
\* pull ever shrinks pending.
C15_NextFrame ==
    [][/\ \A c \in Consumers :
             NextCall(c) =>
                 /\ pending # << >> =>
                        /\ result'.ret = <<Head(pending)>>
                        /\ wq'.work = Tail(pending)
                        /\ Len(wq'.work) = Len(pending) - 1
                 /\ pending = << >> => (result'.exc = StopIteration /\ wq' = wq)
                 /\ wq'.seen = seen
                 /\ wq'.count = count(wq)
                 /\ wq'.unique = wq.unique
                 /\ wq'.key = wq.key
                 /\ offered' = offered
       /\ (\A c \in Consumers : ~NextCall(c)) => IsPrefix(pending, wq'.work)
       /\ Len(wq'.work) < Len(pending) =>
              (result'.op = "__next__" /\ produced' = Append(produced, Head(pending)))]_vars

\* C15 witness: a pull returned the head of a queue of two items whose
\* keys are in seen; the other item is still pending.
C15_Witness ==
    /\ wq.unique
    /\ result.op = "__next__"
    /\ result.exc = None
    /\ Len(produced) = 1
    /\ Len(pending) = 1
    /\ Cardinality(seen) = 2
    /\ count(wq) = 2


\* The attributes __init__ sets before it adds the initial items.
EmptyQueue(unique, key) ==
    [work |-> << >>, seen |-> {}, count |-> 0, unique |-> unique, key |-> key]

RECURSIVE AddFirst(_, _, _)
\* The queue after add(items[1]), ..., add(items[n]) were called on q in
\* this order, none of them raising.
AddFirst(q, items, n) ==
    IF n = 0 THEN q ELSE add(AddFirst(q, items, n - 1), items[n]).q

Batches == SeqsUpTo(Items, MaxBatch)

\* C16: extend(items) leaves the queue in the state that add(x), called
\* once for each x of items from left to right, leaves it in, in both
\* unique modes; duplicates inside the batch are dropped like duplicates
\* across calls.
C16_ExtendIsRepeatedAdd ==
    [][\A items \in Batches :
          (result'.op = "extend" /\ offered' = offered \o items /\ Extend(items))
              => /\ wq' = AddFirst(wq, items, Len(items))
                 /\ result'.exc = None
                 /\ wq.unique =>
                        /\ DistinctKeys(produced \o wq'.work)
                        /\ \A i \in 1..Len(items) : RefKey(items[i]) \in wq'.seen
                 /\ ~wq.unique => wq'.work = pending \o items]_vars

\* C16 witness: an extend onto the empty unique queue offered two items of
\* one key, and only the first of them is pending.
C16_Witness ==
    /\ wq.unique
    /\ result.op = "extend"
    /\ roots = << >>
    /\ Len(offered) = 2
    /\ RefKey(offered[1]) = RefKey(offered[2])
    /\ pending = <<offered[1]>>
    /\ count(wq) = 1

\* C17: a queue constructed with initial items is in the state of an empty
\* queue of the same configuration after extend(items): duplicates among
\* the initial items are dropped with unique set and kept without it, and
\* a queue constructed empty and then extended ends in that same state.
C17_ConstructionIsExtend ==
    /\ result.op = "__init__" =>
           /\ offered = roots
           /\ wq = extend(EmptyQueue(wq.unique, wq.key), roots).q
           /\ wq = AddFirst(EmptyQueue(wq.unique, wq.key), roots, Len(roots))
           /\ wq.unique => (DistinctKeys(pending)
                               /\ pending = FirstOccurrences(roots, Len(roots))
                               /\ seen = {RefKey(roots[i]) : i \in 1..Len(roots)})
           /\ ~wq.unique => (pending = roots /\ seen = {})
           /\ count(wq) = Len(pending)
    /\ (roots = << >> /\ produced = << >>) =>
           wq = WorkQueue(offered, wq.unique, wq.key).q

\* C17 witness: the constructor was given the same key twice with unique
\* set and the new queue holds the first of the two items.
C17_Witness ==
    /\ result.op = "__init__"
    /\ wq.unique
    /\ Len(roots) = 2
    /\ RefKey(roots[1]) = RefKey(roots[2])
    /\ pending = <<roots[1]>>
    /\ count(wq) = 1

\* What one step may do to count and seen.
C18_Steps ==
    /\ wq'.count >= count(wq)
    /\ seen \subseteq wq'.seen
    /\ wq.unique => wq'.count - count(wq) = Cardinality(wq'.seen \ seen)
    /\ \A c \in Consumers :
           NextCall(c) => (wq'.count = count(wq) /\ wq'.seen = seen)
    /\ \A item \in Items :
           (result'.op = "add" /\ wq'.count # count(wq) /\ Add(item)) =>
               /\ wq'.count = count(wq) + 1
               /\ wq.unique => (RefKey(item) \notin seen
                                  /\ wq'.seen = seen \cup {RefKey(item)})

\* C18: count and seen never shrink, a pull changes neither, and with
\* unique set they move in lock-step: an admission adds one new key and one
\* to count, so count is the number of distinct keys ever admitted.
C18_CountAndSeenGrow ==
    /\ [][C18_Steps]_vars
    /\ [](wq.unique =>
              /\ count(wq) = Cardinality(seen)
              /\ seen = {RefKey(x) : x \in Range(Through)}
              /\ seen = {RefKey(x) : x \in Range(Admitted)})

\* C18 witness: three distinct keys were admitted to a unique queue and two
\* of the items were pulled since; count and seen still stand at three.
C18_Witness ==
    /\ wq.unique
    /\ count(wq) = 3
    /\ Cardinality(seen) = 3
    /\ Len(produced) = 2
    /\ Len(pending) = 1


\* The position of the first item of items that add() cannot hash.
FirstUnhashable(items) ==
    CHOOSE k \in 1..Len(items) :
        /\ RefUnhashable(items[k])
        /\ \A j \in 1..(k - 1) : ~RefUnhashable(items[j])

\* What an extend step that raised has done.
C20_Steps ==
    \A items \in ErrBatches :
        (result'.op = "extend" /\ result'.exc = TypeError
             /\ OfferedFrom(items) /\ Extend(items)) =>
            LET k == FirstUnhashable(items)
            IN  /\ wq.unique
                /\ offered' = offered \o SubSeq(items, 1, k)
                /\ wq' = AddFirst(wq, items, k - 1)
                /\ IsPrefix(pending, wq'.work)
                /\ wq'.count - count(wq) = Len(wq'.work) - Len(pending)
                /\ wq'.seen = seen \cup {RefKey(items[j]) : j \in 1..(k - 1)}
                /\ \A i \in 1..Len(wq'.work) : wq'.work[i] # items[k]

\* C20: when the k-th item of a batch makes add() raise TypeError, extend
\* has made the first k - 1 add() calls and their effects on pending, seen
\* and count stay, the k-th item leaves no trace, and no add() call is made
\* for the items after it; a constructor that raises leaves the object it
\* was building in that same state.
C20_ExtendNotAtomic ==
    /\ [][C20_Steps]_vars
    /\ []((result.op = "__init__" /\ result.exc = TypeError) =>
              LET k == FirstUnhashable(roots)
              IN  /\ wq.unique
                  /\ pc = "raised"
                  /\ offered = SubSeq(roots, 1, k)
                  /\ wq = AddFirst(EmptyQueue(wq.unique, wq.key), roots, k - 1)
                  /\ count(wq) = Len(pending)
                  /\ Len(pending) <= k - 1)

\* C20 witness: an extend onto the empty unique queue raised at its second
\* item, and the first item of the batch is pending, seen and counted.
C20_Witness ==
    /\ wq.unique
    /\ result.op = "extend"
    /\ result.exc = TypeError
    /\ roots = << >>
    /\ Len(offered) = 2
    /\ RefUnhashable(offered[2])
    /\ pending = <<offered[1]>>
    /\ seen = {RefKey(offered[1])}
    /\ count(wq) = 1


\* C19: with unique set and items drawn from the N nodes of the table,
\* __next__ returns an item at most N times, so the loop that pulls until
\* StopIteration and extends after each pull comes to its end; without
\* unique, the loop that pulled a node which includes itself never ends.
C19_Termination ==
    /\ [](wq.unique => Len(produced) <= Cardinality(DOMAIN files))
    /\ [](wq.unique => DistinctKeys(produced))
    /\ [](wq.unique => <>(pc = "done" /\ pending = << >> /\ stopped))
    /\ []((~wq.unique /\ pc = "body" /\ fn \in Range(files[fn]))
              => [](pc # "done" /\ ~stopped))

\* C19 witness: the loop over a table of three nodes ended after it was
\* handed each node once, although one of the includes it extended with
\* led back to a node it had seen.
C19_Witness ==
    /\ wq.unique
    /\ pc = "done"
    /\ files \in LoopGraphs
    /\ Len(produced) = Cardinality(DOMAIN files)
    /\ Len(offered) = Len(produced) + 1
    /\ count(wq) = Len(produced)

====
